---------------------------- MODULE Spec2Model ----------------------------
(***************************************************************************)
(* scarb-clean-all (src/src/main.rs): find every Scarb workspace under the *)
(* current directory, ask for confirmation, run `scarb clean` in each one  *)
(* on a rayon pool of `jobs` threads, report every outcome and exit.       *)
(*                                                                         *)
(* Three specifications share this module:                                 *)
(*   SpecLocator  find_scarb_workspaces alone, on every directory tree of  *)
(*                at most MaxEntries directories, one read_dir at a time;  *)
(*   Spec         main(), with find_scarb_workspaces applied in one step;  *)
(*   FairSpec     Spec with the runner scheduled fairly.                   *)
(*                                                                         *)
(* Paths are relative to start_dir.  Writes to stdout and stderr are taken *)
(* to succeed (println! panics otherwise).                                 *)
(***************************************************************************)
EXTENDS Integers, Sequences, FiniteSets, TLC

VARIABLES
    tree,        \* the directory tree under start_dir that the walker reads
    frontier,    \* directories yielded by the walker whose read_dir is pending
    found,       \* `workspaces` inside find_scarb_workspaces (BTreeSet<PathBuf>)
    skipped,     \* number of Err entries met by the loop of lines 121-128
    walkPc,      \* position inside find_scarb_workspaces
    pc,          \* position of the main thread inside main()
    workspaces,  \* main's `workspaces`: the set find_scarb_workspaces returned
    workspace_list, \* main's `workspace_list` (line 36), in BTreeSet order
    jobs,        \* main's `jobs` (line 38); 0 before it is computed
    thread,      \* the pool's threads: the item each one runs, 0 when idle
    slot,        \* per item of workspace_list: "pending", "running" or its outcome
    invoked,     \* per item: how many times Command::status was called for it
    results,     \* main's `results` (line 50), empty until the pool returns them
    next_result, \* position of the loop of lines 69-86 in `results`
    failures,    \* main's `failures` (line 68)
    exitCode,    \* the process's exit code, -1 while it runs
    endedBy,     \* which exit of main() the process took, "" while it runs
    effects,     \* what main has done so far: "prompt", "env", "pool"
    answer,      \* what the user was asked and typed, as the input was built
    requested,   \* the positive integer SCARB_CLEAN_JOBS states, 0 when none
    parent_env,  \* names of the environment variables set when main() starts
    command,     \* per item a thread has taken: the Command it built (lines 55-60)
    output,      \* the lines main's list and report wrote, in order, with the writer
    overtaken    \* whether an invocation has returned before one of an earlier item

locVars == <<tree, frontier, found, skipped, walkPc>>

mainVars == <<pc, workspaces, workspace_list, jobs, thread, slot, invoked, results,
              next_result, failures, exitCode, endedBy, effects, answer, requested,
              parent_env, command, output, overtaken>>

\* the variables only the list, the runner and the report write
logVars == <<parent_env, command, output, overtaken>>

vars == <<locVars, mainVars>>

(***************************************************************************)
(* Bounds of the model.                                                    *)
(***************************************************************************)
\* number of directories below the root in a tree
MaxEntries == 3

Nodes == 0..MaxEntries
Root == 0
Entries == 1..MaxEntries

(***************************************************************************)
(* File names are byte strings (sequences of character codes).             *)
(***************************************************************************)
\* "Scarb.toml"
ScarbToml == <<83, 99, 97, 114, 98, 46, 116, 111, 109, 108>>

\* the name of directory i: "a", "b", ... or, hidden, ".a", ".b", ...
DirName(t, i) == IF t.hidden[i] THEN <<46, 96 + i>> ELSE <<96 + i>>

\* jwalk's is_hidden: the file name starts with '.'
is_hidden(name) == Len(name) > 0 /\ name[1] = 46

RECURSIVE PathOf(_, _)
\* the path of directory d, relative to start_dir, as its components
PathOf(t, d) == IF d = Root THEN <<>>
                ELSE Append(PathOf(t, t.parent[d]), DirName(t, d))

RECURSIVE IsAncestor(_, _, _)
\* a is a proper ancestor of d in the tree
IsAncestor(t, a, d) == d # Root /\ (t.parent[d] = a \/ IsAncestor(t, a, t.parent[d]))

(***************************************************************************)
(* The directory trees.  Directory i > 0 lies in directory parent[i] < i;  *)
(* every directory holds no entry named Scarb.toml, a regular file of that *)
(* name, or a symbolic link of that name.  At most one read fails per      *)
(* tree: the entry of directory i ("entry"), the Scarb.toml entry of       *)
(* directory d ("marker"), or read_dir of directory d itself ("readdir").  *)
(***************************************************************************)
MarkerKinds == {"none", "file", "symlink"}

NoFault == [kind |-> "none", at |-> 0]

Faults(marker) ==
    {NoFault}
    \cup {[kind |-> "entry", at |-> i] : i \in Entries}
    \cup {[kind |-> "marker", at |-> d] : d \in {x \in Nodes : marker[x] = "file"}}
    \cup {[kind |-> "readdir", at |-> d] : d \in Nodes}

Parents == {p \in [Entries -> Nodes] : \A i \in Entries : p[i] < i}

MkTree(p, h, m, f) == [parent |-> p, hidden |-> h, marker |-> m, fault |-> f]

(***************************************************************************)
(* What read_dir(d) delivers: one Result per entry of d.  An Ok entry has  *)
(* a file name and a file type (links are not followed, jwalk's default);  *)
(* an Err entry has neither.  `node` is the directory an entry stands for  *)
(* (-1 for a Scarb.toml entry).                                            *)
(***************************************************************************)
MarkerEntry(t, d) ==
    [ok |-> ~(t.fault.kind = "marker" /\ t.fault.at = d),
     name |-> ScarbToml, ftype |-> t.marker[d], node |-> -1]

DirEntry(t, i) ==
    [ok |-> ~(t.fault.kind = "entry" /\ t.fault.at = i),
     name |-> DirName(t, i), ftype |-> "dir", node |-> i]

Listing(t, d) ==
    (IF t.marker[d] = "none" THEN {} ELSE {MarkerEntry(t, d)})
    \cup {DirEntry(t, i) : i \in {j \in Entries : t.parent[j] = d}}

\* WalkDir::new(dir): jwalk's defaults, skip_hidden = true: an entry that was
\* read and whose name starts with '.' is dropped before the callback runs
SkipHidden(entries) == {e \in entries : ~(e.ok /\ is_hidden(e.name))}

\* lines 101-109
has_scarb_toml(children) ==
    \E e \in children : e.ok /\ e.name = ScarbToml /\ e.ftype = "file"

\* a retain that keeps every child
RetainAll(children) == children

\* lines 112-117: children.retain(..)
RetainNonDirs(children) == {e \in children : ~e.ok \/ e.ftype # "dir"}

\* process_read_dir without the retain of lines 111-118
process_read_dir_no_prune(children) == children

\* lines 100-119: the process_read_dir callback
process_read_dir(children) ==
    IF has_scarb_toml(children) THEN RetainNonDirs(children) ELSE children

\* a walker that gives up on a directory as soon as one of its entries fails
Yielded_abort_on_error(t, d) ==
    IF t.fault.kind = "readdir" /\ t.fault.at = d THEN {}
    ELSE IF \E e \in Listing(t, d) : ~e.ok THEN {}
    ELSE process_read_dir(SkipHidden(Listing(t, d)))

\* the entries of d the walker yields (and descends into, when directories)
Yielded(t, d) ==
    IF t.fault.kind = "readdir" /\ t.fault.at = d THEN {}
    ELSE process_read_dir(SkipHidden(Listing(t, d)))

\* lines 130-135: the yielded entry is a regular file named Scarb.toml
IsManifest(e) == e.ok /\ e.ftype = "file" /\ e.name = ScarbToml

\* lines 121-140 for the entries of one directory: the workspaces inserted
Inserted(t, d) == IF \E e \in Yielded(t, d) : IsManifest(e) THEN {PathOf(t, d)} ELSE {}

\* the directories among the yielded entries: the walker reads them next
Descend(t, d) == {e.node : e \in {x \in Yielded(t, d) : x.ok /\ x.ftype = "dir"}}

\* lines 124-127: entries that are Err
Unreadable(t, d) == {e \in Yielded(t, d) : ~e.ok}

RECURSIVE WalkFrom(_, _)
WalkFrom(t, d) ==
    Inserted(t, d) \cup UNION {WalkFrom(t, c) : c \in Descend(t, d)}

\* lines 96-143
find_scarb_workspaces(t) == WalkFrom(t, Root)

(***************************************************************************)
(* BTreeSet<PathBuf>: paths compare component by component, components     *)
(* byte by byte.                                                           *)
(***************************************************************************)
RECURSIVE NameLess(_, _)
\* file name a sorts before file name b: byte by byte
NameLess(a, b) ==
    IF b = <<>> THEN FALSE
    ELSE IF a = <<>> THEN TRUE
    ELSE IF a[1] # b[1] THEN a[1] < b[1]
    ELSE NameLess(Tail(a), Tail(b))

RECURSIVE PathLess(_, _)
\* path a sorts before path b: component by component
PathLess(a, b) ==
    IF b = <<>> THEN FALSE
    ELSE IF a = <<>> THEN TRUE
    ELSE IF a[1] # b[1] THEN NameLess(a[1], b[1])
    ELSE PathLess(Tail(a), Tail(b))

RECURSIVE InOrder(_)
\* the elements of a set of paths in ascending order (BTreeSet iteration)
InOrder(S) ==
    IF S = {} THEN <<>>
    ELSE LET least == CHOOSE x \in S : \A y \in S \ {x} : PathLess(x, y)
         IN <<least>> \o InOrder(S \ {least})

(***************************************************************************)
(* str::trim, to_ascii_lowercase and str::parse::<usize>, on byte strings. *)
(***************************************************************************)
IsWhitespace(c) == c \in {9, 10, 11, 12, 13, 32}

RECURSIVE trim_start(_)
trim_start(s) ==
    IF s # <<>> /\ IsWhitespace(s[1]) THEN trim_start(Tail(s)) ELSE s

RECURSIVE trim_end(_)
trim_end(s) ==
    IF s # <<>> /\ IsWhitespace(s[Len(s)]) THEN trim_end(SubSeq(s, 1, Len(s) - 1)) ELSE s

trim(s) == trim_end(trim_start(s))

to_ascii_lowercase(s) ==
    [i \in 1..Len(s) |-> IF s[i] \in 65..90 THEN s[i] + 32 ELSE s[i]]

\* the model's usize::MAX
UsizeMax == 10

ParseError == -1

RECURSIVE ParseDigits(_, _)
\* checked accumulation of decimal digits: ParseError on a byte that is no
\* digit and on overflow of usize
ParseDigits(ds, acc) ==
    IF ds = <<>> THEN acc
    ELSE IF ds[1] \notin 48..57 THEN ParseError
    ELSE IF acc * 10 + (ds[1] - 48) > UsizeMax THEN ParseError
    ELSE ParseDigits(Tail(ds), acc * 10 + (ds[1] - 48))

\* str::parse::<usize>: an optional '+', then at least one digit
parse_usize(s) ==
    IF s = <<>> THEN ParseError
    ELSE LET digits == IF s[1] = 43 THEN Tail(s) ELSE s
         IN IF digits = <<>> THEN ParseError ELSE ParseDigits(digits, 0)

Min(a, b) == IF a < b THEN a ELSE b

Max(a, b) == IF a > b THEN a ELSE b

(***************************************************************************)
(* What the user types at the prompt: a word, in some casing, with white   *)
(* space around it.  IsYes is read off the word the line is built from.    *)
(***************************************************************************)
Words == { <<121>>,               \* y
           <<121, 101, 115>>,     \* yes
           <<110>>,               \* n
           <<>>,                  \* nothing
           <<121, 101>>,          \* ye
           <<121, 101, 115, 115>>, \* yess
           <<121, 32, 115>> }     \* y s

Casings == {"lower", "upper", "capital"}

Leads == { <<>>, <<32>>, <<9, 32>> }

Trails == { <<10>>, <<>>, <<32, 13, 10>> }

Typed == [word : Words, casing : Casings, lead : Leads, trail : Trails]

ToUpper(c) == IF c \in 97..122 THEN c - 32 ELSE c

Cased(word, casing) ==
    [i \in 1..Len(word) |->
        IF casing = "upper" \/ (casing = "capital" /\ i = 1)
        THEN ToUpper(word[i]) ELSE word[i]]

\* the line read_line appends to `input`
Line(a) == a.lead \o Cased(a.word, a.casing) \o a.trail

IsYes(a) == a.word \in { <<121>>, <<121, 101, 115>> }

\* ask_for_confirmation accepting any answer that starts with "y"
ask_for_confirmation_prefix(flushOk, readOk, input) ==
    flushOk /\ readOk /\ to_ascii_lowercase(trim(input)) # <<>>
            /\ to_ascii_lowercase(trim(input))[1] = 121

\* lines 145-160
ask_for_confirmation(flushOk, readOk, input) ==
    IF ~flushOk THEN FALSE
    ELSE IF ~readOk THEN FALSE
    ELSE LET normalized == to_ascii_lowercase(trim(input))
         IN normalized = <<121>> \/ normalized = <<121, 101, 115>>

(***************************************************************************)
(* The environment variable SCARB_CLEAN_JOBS: unset, an integer written    *)
(* with a sign, leading zeros and white space around it, or other text.    *)
(***************************************************************************)
\* largest integer written into SCARB_CLEAN_JOBS
MaxJ == 11

RECURSIVE Digits(_)
\* n in decimal
Digits(n) == IF n < 10 THEN <<48 + n>> ELSE Append(Digits(n \div 10), 48 + (n % 10))

Signs == { <<>>, <<43>>, <<45>> }

Numerals == [value : 0..MaxJ, sign : Signs, zeros : BOOLEAN, padded : BOOLEAN]

Numeral(n) ==
    LET text == n.sign \o (IF n.zeros THEN <<48>> ELSE <<>>) \o Digits(n.value)
    IN IF n.padded THEN <<32>> \o text \o <<32, 10>> ELSE text

OtherTexts == { <<>>,                 \* empty
                <<97, 98, 99>>,       \* abc
                <<50, 120>>,          \* 2x
                <<49, 46, 53>>,       \* 1.5
                <<43>>,               \* +
                <<50, 32, 50>> }      \* 2 2

Unset == [set |-> FALSE, raw |-> <<>>]

EnvOfNumeral(n) == [set |-> TRUE, raw |-> Numeral(n)]

EnvOfText(x) == [set |-> TRUE, raw |-> x]

\* the positive integer a numeral states, 0 when it states none
Stated(n) == IF n.value >= 1 /\ n.sign # <<45>> THEN n.value ELSE 0

\* lines 170-187; None is 0 (Some(0) is never returned)
parse_jobs_from_env(env) ==
    IF ~env.set THEN 0
    ELSE LET value == parse_usize(trim(env.raw))
         IN IF value = ParseError THEN 0 ELSE value

\* line 37
max_jobs(env, len) ==
    IF parse_jobs_from_env(env) = 0 THEN Max(len, 1) ELSE parse_jobs_from_env(env)

\* line 38 without the min
ClampJobs_no_min(env, len) == max_jobs(env, len)

\* line 38
ClampJobs(env, len) == Min(max_jobs(env, len), Max(len, 1))

\* main() has not started
MainIdle ==
    /\ pc = "start"
    /\ workspaces = {}
    /\ workspace_list = <<>>
    /\ jobs = 0
    /\ thread = <<>>
    /\ slot = <<>>
    /\ invoked = <<>>
    /\ results = <<>>
    /\ next_result = 0
    /\ failures = 0
    /\ exitCode = -1
    /\ endedBy = ""
    /\ effects = {}
    /\ answer = "unasked"
    /\ requested = 0
    /\ command = <<>>
    /\ output = <<>>
    /\ overtaken = FALSE

(***************************************************************************)
(* find_scarb_workspaces, one read_dir at a time.  The walker reads        *)
(* directories in parallel: the order is not fixed.  A directory whose     *)
(* read_dir fails is yielded with the error attached and has no children.  *)
(***************************************************************************)
InitLocator ==
    /\ \E p \in Parents, h \in [Entries -> BOOLEAN], m \in [Nodes -> MarkerKinds] :
          \E f \in Faults(m) : tree = MkTree(p, h, m, f)
    /\ frontier = {Root}
    /\ found = {}
    /\ skipped = 0
    /\ walkPc = "walk"
    /\ MainIdle
    /\ parent_env = {"PATH"}

\* a result that keeps only what the first directory read inserted
ReadDir_keep_first(d) ==
    /\ walkPc = "walk"
    /\ d \in frontier
    /\ frontier' = (frontier \ {d}) \cup Descend(tree, d)
    /\ found' = IF found = {} THEN Inserted(tree, d) ELSE found
    /\ skipped' = skipped + Cardinality(Unreadable(tree, d))
    /\ UNCHANGED <<tree, walkPc>>
    /\ UNCHANGED mainVars

\* lines 121-140 for the entries of one directory, read in any order
ReadDir(d) ==
    /\ walkPc = "walk"
    /\ d \in frontier
    /\ frontier' = (frontier \ {d}) \cup Descend(tree, d)
    /\ found' = found \cup Inserted(tree, d)
    /\ skipped' = skipped + Cardinality(Unreadable(tree, d))
    /\ UNCHANGED <<tree, walkPc>>
    /\ UNCHANGED mainVars

\* line 142
WalkReturn ==
    /\ walkPc = "walk"
    /\ frontier = {}
    /\ walkPc' = "returned"
    /\ UNCHANGED <<tree, frontier, found, skipped>>
    /\ UNCHANGED mainVars

NextLocator ==
    \/ \E d \in Nodes : ReadDir(d)
    \/ WalkReturn

SpecLocator == InitLocator /\ [][NextLocator]_vars

(***************************************************************************)
(* main()                                                                  *)
(***************************************************************************)
\* the environment main() starts in: SCARB_MANIFEST_PATH set or not
ParentEnvs == { {"PATH"}, {"PATH", "SCARB_MANIFEST_PATH"} }

Init ==
    /\ tree = <<>>
    /\ frontier = {}
    /\ found = {}
    /\ skipped = 0
    /\ walkPc = "idle"
    /\ MainIdle
    /\ parent_env \in ParentEnvs

Items == 1..Len(workspace_list)

Outcomes == {"ok", "exit", "launch"}

\* return from main (exit code 0) or std::process::exit(1)
Exit(code, by) ==
    /\ pc' = "exited"
    /\ exitCode' = code
    /\ endedBy' = by

\* lines 11-17
CurrentDir ==
    /\ pc = "start"
    /\ \E ok \in BOOLEAN :
          IF ok THEN pc' = "locate" /\ UNCHANGED <<exitCode, endedBy>>
          ELSE Exit(1, "cwd_error")
    /\ UNCHANGED <<workspaces, workspace_list, jobs, thread, slot, invoked, results,
                   next_result, failures, effects, answer, requested>>
    /\ UNCHANGED locVars
    /\ UNCHANGED logVars

\* line 19
FindWorkspaces ==
    /\ pc = "locate"
    /\ \E p \in Parents, h \in [Entries -> BOOLEAN], m \in [Nodes -> MarkerKinds] :
          \E f \in Faults(m) : workspaces' = find_scarb_workspaces(MkTree(p, h, m, f))
    /\ pc' = "found"
    /\ UNCHANGED <<workspace_list, jobs, thread, slot, invoked, results, next_result,
                   failures, exitCode, endedBy, effects, answer, requested>>
    /\ UNCHANGED locVars
    /\ UNCHANGED logVars

\* the empty result is reported as an error
NothingFound_exit_1 ==
    /\ pc = "found"
    /\ workspaces = {}
    /\ Exit(1, "nothing_found")
    /\ UNCHANGED <<workspaces, workspace_list, jobs, thread, slot, invoked, results,
                   next_result, failures, effects, answer, requested>>
    /\ UNCHANGED locVars
    /\ UNCHANGED logVars

\* lines 21-24
NothingFound ==
    /\ pc = "found"
    /\ workspaces = {}
    /\ Exit(0, "nothing_found")
    /\ UNCHANGED <<workspaces, workspace_list, jobs, thread, slot, invoked, results,
                   next_result, failures, effects, answer, requested>>
    /\ UNCHANGED locVars
    /\ UNCHANGED logVars

\* lines 27-29: one line per workspace, in the order of the BTreeSet
Listed ==
    [k \in 1..Cardinality(workspaces) |->
        [kind |-> "listed", workspace |-> InOrder(workspaces)[k], stream |-> "stdout",
         by |-> "main"]]

\* the list is printed, and the prompt reached, for an empty result too
PrintList_unguarded ==
    /\ pc = "found"
    /\ pc' = "confirm"
    /\ output' = output \o Listed
    /\ UNCHANGED <<workspaces, workspace_list, jobs, thread, slot, invoked, results,
                   next_result, failures, exitCode, endedBy, effects, answer, requested>>
    /\ UNCHANGED <<parent_env, command, overtaken>>
    /\ UNCHANGED locVars

\* lines 26-29
PrintList ==
    /\ pc = "found"
    /\ workspaces # {}
    /\ pc' = "confirm"
    /\ output' = output \o Listed
    /\ UNCHANGED <<workspaces, workspace_list, jobs, thread, slot, invoked, results,
                   next_result, failures, exitCode, endedBy, effects, answer, requested>>
    /\ UNCHANGED <<parent_env, command, overtaken>>
    /\ UNCHANGED locVars

\* lines 31-34 and 145-160
AskForConfirmation ==
    /\ pc = "confirm"
    /\ effects' = effects \cup {"prompt"}
    /\ \E flushOk \in BOOLEAN, readOk \in BOOLEAN, a \in Typed :
          /\ answer' = IF ~flushOk THEN "flush_failed"
                       ELSE IF ~readOk THEN "read_failed"
                       ELSE IF IsYes(a) THEN "yes" ELSE "other"
          /\ IF ask_for_confirmation(flushOk, readOk, Line(a))
             THEN pc' = "jobs" /\ UNCHANGED <<exitCode, endedBy>>
             ELSE Exit(0, "aborted")
    /\ UNCHANGED <<workspaces, workspace_list, jobs, thread, slot, invoked, results,
                   next_result, failures, requested>>
    /\ UNCHANGED locVars
    /\ UNCHANGED logVars

\* a list that leaves out the last workspace
RunList_without_last == SubSeq(InOrder(workspaces), 1, Cardinality(workspaces) - 1)

\* line 36: workspaces.iter().cloned().collect()
RunList == InOrder(workspaces)

\* lines 36-40, for one value of the environment variable
ComputeJobs(env, stated) ==
    /\ pc = "jobs"
    /\ workspace_list' = RunList
    /\ jobs' = ClampJobs(env, Cardinality(workspaces))
    /\ slot' = [i \in 1..Cardinality(workspaces) |-> "pending"]
    /\ invoked' = [i \in 1..Cardinality(workspaces) |-> 0]
    /\ effects' = effects \cup {"env"}
    /\ requested' = stated
    /\ pc' = "pool"
    /\ UNCHANGED <<workspaces, thread, results, next_result, failures, exitCode,
                   endedBy, answer>>
    /\ UNCHANGED locVars
    /\ UNCHANGED logVars

ReadJobs ==
    \/ ComputeJobs(Unset, 0)
    \/ \E n \in Numerals : ComputeJobs(EnvOfNumeral(n), Stated(n))
    \/ \E x \in OtherTexts : ComputeJobs(EnvOfText(x), 0)

\* a pool with one thread per item, whatever `jobs` is
PoolSize_per_item == Len(workspace_list)

\* a pool one thread short of `jobs`
PoolSize_one_short == jobs - 1

\* the number of threads of the pool: num_threads(jobs), line 42
PoolSize == jobs

\* lines 42-48
BuildPool ==
    /\ pc = "pool"
    /\ \E ok \in BOOLEAN :
          IF ok
          THEN /\ thread' = [w \in 1..PoolSize |-> 0]
               /\ effects' = effects \cup {"pool"}
               /\ pc' = "run"
               /\ UNCHANGED <<exitCode, endedBy>>
          ELSE /\ Exit(1, "pool_error")
               /\ UNCHANGED <<thread, effects>>
    /\ UNCHANGED <<workspaces, workspace_list, jobs, slot, invoked, results,
                   next_result, failures, answer, requested>>
    /\ UNCHANGED locVars
    /\ UNCHANGED logVars

\* the child keeps every variable of the parent
ChildEnv_inherited(parent) == parent

\* line 59: env_remove("SCARB_MANIFEST_PATH")
ChildEnv(parent) == parent \ {"SCARB_MANIFEST_PATH"}

\* lines 54-60: the Command built for `workspace`
CommandFor(workspace) ==
    [program |-> "scarb",
     manifest_path |-> Append(workspace, ScarbToml),
     subcommand |-> "clean",
     env |-> ChildEnv(parent_env),
     current_dir |-> workspace]

\* an item a thread has taken is still offered to the other threads
Taken_still_pending(i) == slot

\* the state of item i once a thread has taken it
Taken(i) == [slot EXCEPT ![i] = "running"]

\* lines 53-61: an idle thread of the pool takes an item no thread has taken
\* and calls Command::status for it
Start(w, i) ==
    /\ pc = "run"
    /\ thread[w] = 0
    /\ slot[i] = "pending"
    /\ thread' = [thread EXCEPT ![w] = i]
    /\ slot' = Taken(i)
    /\ invoked' = [invoked EXCEPT ![i] = @ + 1]
    /\ command' = command @@ (i :> CommandFor(workspace_list[i]))
    /\ UNCHANGED <<pc, workspaces, workspace_list, jobs, results, next_result,
                   failures, exitCode, endedBy, effects, answer, requested>>
    /\ UNCHANGED <<parent_env, output, overtaken>>
    /\ UNCHANGED locVars

\* a thread that writes the line for its item itself, as soon as it has the status
Finish_reporting(w, o) ==
    /\ pc = "run"
    /\ thread[w] # 0
    /\ slot' = [slot EXCEPT ![thread[w]] = o]
    /\ thread' = [thread EXCEPT ![w] = 0]
    /\ overtaken' = (overtaken \/ \E j \in 1..(thread[w] - 1) : slot[j] \notin Outcomes)
    /\ output' = Append(output, [kind |-> "outcome", workspace |-> workspace_list[thread[w]],
                                 stream |-> IF o = "ok" THEN "stdout" ELSE "stderr",
                                 by |-> "worker"])
    /\ UNCHANGED <<pc, workspaces, workspace_list, jobs, invoked, results, next_result,
                   failures, exitCode, endedBy, effects, answer, requested>>
    /\ UNCHANGED <<parent_env, command>>
    /\ UNCHANGED locVars

\* lines 61-63: Command::status returns in thread w; the closure writes nothing
Finish(w, o) ==
    /\ pc = "run"
    /\ thread[w] # 0
    /\ slot' = [slot EXCEPT ![thread[w]] = o]
    /\ thread' = [thread EXCEPT ![w] = 0]
    /\ overtaken' = (overtaken \/ \E j \in 1..(thread[w] - 1) : slot[j] \notin Outcomes)
    /\ UNCHANGED <<pc, workspaces, workspace_list, jobs, invoked, results, next_result,
                   failures, exitCode, endedBy, effects, answer, requested>>
    /\ UNCHANGED <<parent_env, command, output>>
    /\ UNCHANGED locVars

\* the pool returns as soon as every item has been taken
AllReturned_all_taken == \A i \in Items : slot[i] # "pending"

\* the pool gives up as soon as one invocation has failed
AllReturned_or_failed ==
    \/ \A i \in Items : slot[i] \in Outcomes
    \/ \E i \in Items : slot[i] \in {"exit", "launch"}

\* the pool is done with the parallel iterator
AllReturned == \A i \in Items : slot[i] \in Outcomes

\* the results come back last item first
Collected_reversed ==
    [k \in Items |-> [workspace |-> workspace_list[Len(workspace_list) + 1 - k],
                      status |-> slot[Len(workspace_list) + 1 - k]]]

\* lines 51-65: collect() keeps the order of workspace_list
Collected == [i \in Items |-> [workspace |-> workspace_list[i], status |-> slot[i]]]

\* lines 65-68: collect() and pool.install return
Join ==
    /\ pc = "run"
    /\ AllReturned
    /\ results' = Collected
    /\ failures' = 0
    /\ next_result' = 1
    /\ pc' = "aggregate"
    /\ UNCHANGED <<workspaces, workspace_list, jobs, thread, slot, invoked, exitCode,
                   endedBy, effects, answer, requested>>
    /\ UNCHANGED locVars
    /\ UNCHANGED logVars

\* lines 71-84: the line reporting one result, written by the main thread
OutcomeLine(r) ==
    [kind |-> "outcome", workspace |-> r.workspace,
     stream |-> IF r.status = "ok" THEN "stdout" ELSE "stderr", by |-> "main"]

\* lines 88-92: the last line
AggregateLine(n) ==
    [kind |-> "aggregate", workspace |-> <<>>,
     stream |-> IF n = 0 THEN "stdout" ELSE "stderr", by |-> "main"]

\* a launch failure is not counted
Counted_exit_only(status) == IF status = "exit" THEN 1 ELSE 0

\* lines 70-85: what one result adds to `failures`
Counted(status) == IF status = "ok" THEN 0 ELSE 1

\* lines 69-86, one iteration
Tally ==
    /\ pc = "aggregate"
    /\ next_result <= Len(results)
    /\ failures' = failures + Counted(results[next_result].status)
    /\ next_result' = next_result + 1
    /\ output' = Append(output, OutcomeLine(results[next_result]))
    /\ UNCHANGED <<pc, workspaces, workspace_list, jobs, thread, slot, invoked, results,
                   exitCode, endedBy, effects, answer, requested>>
    /\ UNCHANGED <<parent_env, command, overtaken>>
    /\ UNCHANGED locVars

\* lines 88-93
Report ==
    /\ pc = "aggregate"
    /\ next_result > Len(results)
    /\ IF failures = 0 THEN Exit(0, "all_cleaned") ELSE Exit(1, "failures")
    /\ output' = Append(output, AggregateLine(failures))
    /\ UNCHANGED <<workspaces, workspace_list, jobs, thread, slot, invoked, results,
                   next_result, failures, effects, answer, requested>>
    /\ UNCHANGED <<parent_env, command, overtaken>>
    /\ UNCHANGED locVars

Next ==
    \/ CurrentDir
    \/ FindWorkspaces
    \/ NothingFound
    \/ PrintList
    \/ AskForConfirmation
    \/ ReadJobs
    \/ BuildPool
    \/ \E w \in DOMAIN thread, i \in Items : Start(w, i)
    \/ \E w \in DOMAIN thread, o \in Outcomes : Finish(w, o)
    \/ Join
    \/ Tally
    \/ Report

Spec == Init /\ [][Next]_vars


(***************************************************************************)
(* The runner under fair scheduling: the pool's threads keep taking items  *)
(* while some are left, every `scarb clean` returns, and pool.install      *)
(* returns once all have; the main thread then reports and exits.          *)
(***************************************************************************)
RunStep ==
    \/ \E w \in DOMAIN thread, i \in Items : Start(w, i)
    \/ \E w \in DOMAIN thread, o \in Outcomes : Finish(w, o)
    \/ Join

\* the main thread, once the pool has returned, runs to its exit
ReportStep == Tally \/ Report

FairSpec == Init /\ [][Next]_vars /\ WF_vars(RunStep) /\ WF_vars(ReportStep)

(***************************************************************************)
(* Properties                                                              *)
(***************************************************************************)
\* the walk of SpecLocator, in whatever order, returns what Spec's single step
\* computes
WalkAgrees == walkPc = "returned" => found = find_scarb_workspaces(tree)

\* path a is a proper prefix of path b: a is an ancestor of b
IsProperPrefix(a, b) == Len(a) < Len(b) /\ SubSeq(b, 1, Len(a)) = a

AncestorFree(S) == \A a \in S, b \in S : ~IsProperPrefix(a, b)

\* d directly contains a regular file named Scarb.toml
HasManifest(t, d) == t.marker[d] = "file"

\* ... and the walker reads that entry without error
ManifestRead(t, d) == HasManifest(t, d) /\ ~(t.fault.kind = "marker" /\ t.fault.at = d)

NoDescendantFound(d) ==
    \A x \in Entries : IsAncestor(tree, d, x) => PathOf(tree, x) \notin found

\* C1 as stated: once find_scarb_workspaces has returned, no proper descendant
\* of a directory that directly contains a regular file Scarb.toml is in the
\* result, and no entry of the result is an ancestor of another.
C1_PruningAsStated ==
    walkPc = "returned" =>
        /\ \A d \in Nodes : HasManifest(tree, d) => NoDescendantFound(d)
        /\ AncestorFree(found)

\* C1, amended: once find_scarb_workspaces has returned, no proper descendant
\* of a directory whose regular file Scarb.toml the walker read without error
\* is in the result, and (whatever was read) no entry of the result is an
\* ancestor of another.
C1_Pruning ==
    walkPc = "returned" =>
        /\ \A d \in Nodes : ManifestRead(tree, d) => NoDescendantFound(d)
        /\ AncestorFree(found)

\* a workspace was found whose child directory, not hidden and read without
\* error, holds a Scarb.toml of its own and is not in the result
C1_Witness ==
    /\ walkPc = "returned"
    /\ \E d \in Nodes, x \in Entries :
          /\ tree.parent[x] = d
          /\ ManifestRead(tree, d) /\ ManifestRead(tree, x)
          /\ ~tree.hidden[x]
          /\ tree.fault = NoFault
          /\ PathOf(tree, d) \in found
          /\ PathOf(tree, x) \notin found

\* C2 (completeness), stated for the trees that are read without any error:
\* once find_scarb_workspaces has returned, every directory, whatever its
\* name, that directly contains a regular file Scarb.toml and lies below no
\* other such directory is in the result.
C2_Completeness ==
    (walkPc = "returned" /\ tree.fault = NoFault) =>
        \A d \in Nodes :
            (HasManifest(tree, d) /\ \A a \in Nodes : IsAncestor(tree, a, d) => ~HasManifest(tree, a))
                => PathOf(tree, d) \in found

N == Len(workspace_list)

InFlight == Cardinality({i \in Items : slot[i] = "running"})

\* C3: the number of invocations started and not yet returned never exceeds
\* min(J, N), J the bound SCARB_CLEAN_JOBS requests (nor N when it requests none).
C3_JobBound ==
    /\ InFlight <= N
    /\ requested >= 1 => InFlight <= Min(requested, N)

\* two invocations run, a third item waits: the bound 2 < N = 3 is met
C3_Witness ==
    /\ pc = "run"
    /\ requested = 2
    /\ N = 3
    /\ InFlight = 2
    /\ \E i \in Items : slot[i] = "pending"

RunnerFinished == pc = "aggregate" \/ (pc = "exited" /\ endedBy \in {"all_cleaned", "failures"})

\* C4: no workspace is ever invoked twice; once the runner has finished each
\* workspace was invoked exactly once and `results` holds exactly one outcome
\* per workspace.
C4_ExactlyOnce ==
    /\ \A i \in Items : invoked[i] <= 1
    /\ RunnerFinished =>
          /\ \A i \in Items : invoked[i] = 1
          /\ Len(results) = Cardinality(workspaces)
          /\ \A w \in workspaces :
                Cardinality({k \in DOMAIN results : results[k].workspace = w}) = 1
          /\ \A k \in DOMAIN results : results[k].status \in Outcomes

\* the runner has finished three workspaces on two threads
C4_Witness ==
    /\ RunnerFinished
    /\ Cardinality(workspaces) = 3
    /\ jobs = 2
    /\ \A i \in Items : invoked[i] = 1

Failed(i) == slot[i] \in {"exit", "launch"}

AllRecorded ==
    /\ pc # "run"
    /\ Len(results) = N
    /\ \A i \in Items : invoked[i] = 1 /\ results[i].status \in Outcomes

\* C5: whenever some invocation has failed while the runner runs, every
\* workspace's invocation is still started and returns, and the runner ends
\* with an outcome recorded for every workspace.
C5_NoFailFast ==
    (pc = "run" /\ \E i \in Items : Failed(i)) ~> AllRecorded

\* one invocation has failed while another runs and a third is not started
C5_Witness ==
    /\ pc = "run"
    /\ \E a \in Items, b \in Items, c \in Items :
          Failed(a) /\ slot[b] = "running" /\ slot[c] = "pending"

\* C6: after the runner, the failure count reported is the number of outcomes
\* that are no success, and the run ends as a success exactly when every
\* outcome is one.
C6_Aggregate ==
    (pc = "exited" /\ endedBy \in {"all_cleaned", "failures"}) =>
        /\ failures = Cardinality({i \in Items : slot[i] # "ok"})
        /\ endedBy = "all_cleaned" <=> \A i \in Items : slot[i] = "ok"
        /\ endedBy = "all_cleaned" <=> exitCode = 0

\* a run with one success, one non-zero exit and one launch failure
C6_Witness ==
    /\ pc = "exited"
    /\ endedBy = "failures"
    /\ failures = 2
    /\ \E a \in Items, b \in Items, c \in Items :
          slot[a] = "ok" /\ slot[b] = "exit" /\ slot[c] = "launch"

NothingStarted ==
    /\ \A i \in DOMAIN invoked : invoked[i] = 0
    /\ \A i \in DOMAIN slot : slot[i] = "pending"
    /\ thread = <<>>
    /\ "pool" \notin effects

\* C7: an invocation is started, or the pool built, only after the user typed
\* y or yes (in any casing, white space around it); after any other answer and
\* after a failed flush or read the program has ended with nothing started.
C7_ConfirmationGate ==
    /\ ~NothingStarted => answer = "yes"
    /\ answer \in {"other", "flush_failed", "read_failed"} =>
          /\ pc = "exited" /\ endedBy = "aborted" /\ exitCode = 0
          /\ NothingStarted

\* an invocation runs after the user confirmed
C7_Witness ==
    /\ answer = "yes"
    /\ pc = "run"
    /\ \E i \in Items : slot[i] = "running" /\ invoked[i] = 1

\* C8: the exit code is 1 exactly when an invocation failed, the current
\* directory could not be determined or the pool could not be built, and 0 in
\* every other terminal state.
C8_ExitCode ==
    pc = "exited" =>
        /\ exitCode \in {0, 1}
        /\ exitCode = 1 <=>
              \/ \E i \in Items : Failed(i)
              \/ endedBy = "cwd_error"
              \/ endedBy = "pool_error"

\* exit code 1 because an invocation failed
C8_Witness ==
    /\ pc = "exited"
    /\ exitCode = 1
    /\ endedBy = "failures"
    /\ \E i \in Items : Failed(i)

\* C9: with an empty result the program only ends: exit code 0, no prompt, no
\* read of SCARB_CLEAN_JOBS, no pool, no invocation.
C9_NothingToDo ==
    (pc \notin {"start", "locate"} /\ endedBy # "cwd_error" /\ workspaces = {}) =>
        /\ pc \in {"found", "exited"}
        /\ pc = "exited" => (endedBy = "nothing_found" /\ exitCode = 0)
        /\ effects = {}
        /\ answer = "unasked"
        /\ NothingStarted

\* the program has ended on an empty result
C9_Witness ==
    /\ pc = "exited"
    /\ endedBy = "nothing_found"
    /\ workspaces = {}

\* C10: whenever the pool is built, 1 <= jobs <= N, the pool has `jobs`
\* threads, jobs = min(J, N) when SCARB_CLEAN_JOBS states a positive integer J
\* and jobs = N when it is unset or states none.
C10_JobPool ==
    "pool" \in effects =>
        /\ 1 <= jobs /\ jobs <= N
        /\ Len(thread) = jobs
        /\ requested >= 1 => jobs = Min(requested, N)
        /\ requested = 0 => jobs = N

\* a pool of 2 threads for 3 workspaces, SCARB_CLEAN_JOBS stating 2
C10_Witness ==
    /\ "pool" \in effects
    /\ requested = 2
    /\ N = 3
    /\ jobs = 2

(***************************************************************************)
(* The order of paths, written out: a sorts before b when, at the first    *)
(* position where the two differ, a has ended or holds the smaller item.   *)
(***************************************************************************)
NameBefore(a, b) ==
    \E k \in 1..(Min(Len(a), Len(b)) + 1) :
        /\ \A j \in 1..(k - 1) : a[j] = b[j]
        /\ IF k > Len(a) THEN k <= Len(b)
           ELSE k <= Len(b) /\ a[k] < b[k]

PathBefore(a, b) ==
    \E k \in 1..(Min(Len(a), Len(b)) + 1) :
        /\ \A j \in 1..(k - 1) : a[j] = b[j]
        /\ IF k > Len(a) THEN k <= Len(b)
           ELSE k <= Len(b) /\ NameBefore(a[k], b[k])

\* the sequence q is strictly ascending by path
Ascending(q) == \A i \in DOMAIN q, j \in DOMAIN q : i < j => PathBefore(q[i], q[j])

\* the lines of a kind in `output`, as positions
LinesOf(kind) == {k \in DOMAIN output : output[k].kind = kind}

ReportLines == LinesOf("outcome") \cup LinesOf("aggregate")

Unreturned == {i \in Items : slot[i] \in {"pending", "running"}}

\* C11 (join barrier): while any invocation is in flight or not yet started,
\* no outcome line and no aggregate line has been written, the results have
\* not been collected and the count of failures has not begun; the program
\* counts and reports only with every invocation returned and every thread
\* of the pool idle.
C11_JoinBarrier ==
    /\ Unreturned # {} =>
          /\ ReportLines = {}
          /\ pc # "aggregate"
          /\ results = <<>> /\ next_result = 0 /\ failures = 0
    /\ (pc = "aggregate" \/ ReportLines # {}) =>
          /\ \A i \in Items : slot[i] \in Outcomes /\ invoked[i] = 1
          /\ \A w \in DOMAIN thread : thread[w] = 0

\* the first outcome line of three is written, after invocations that
\* returned out of order
C11_Witness ==
    /\ pc = "aggregate"
    /\ N = 3
    /\ next_result = 2
    /\ Cardinality(LinesOf("outcome")) = 1
    /\ overtaken

\* C12 (deterministic ordering): in whatever order the directories are read,
\* find_scarb_workspaces returns the one set the tree determines, and the
\* enumeration of that set is the one strictly ascending sequence of its
\* paths.
C12_Deterministic ==
    walkPc = "returned" =>
        /\ found = find_scarb_workspaces(tree)
        /\ Len(InOrder(found)) = Cardinality(found)
        /\ {InOrder(found)[k] : k \in 1..Len(InOrder(found))} = found
        /\ Ascending(InOrder(found))

\* two workspaces were found, at different depths of the tree
C12_Witness ==
    /\ walkPc = "returned"
    /\ Cardinality(found) = 2
    /\ \E a \in found, b \in found : Len(a) < Len(b)

\* the tree as it would be read without any error
Faultless(t) == [t EXCEPT !.fault = NoFault]

\* the one failure of the tree, if any, is on the way to directory d: reading
\* d or one of its ancestors, or the entry of d or of one of its ancestors
FaultOnPath(t, d) ==
    \/ t.fault.kind = "readdir" /\ (t.fault.at = d \/ IsAncestor(t, t.fault.at, d))
    \/ t.fault.kind = "entry" /\ (t.fault.at = d \/ IsAncestor(t, t.fault.at, d))

\* ... or is the entry of d's own Scarb.toml
FaultOnMarker(t, d) == t.fault.kind = "marker" /\ t.fault.at = d

\* C13 (traversal error isolation): a failure to read an entry or a directory
\* ends no walk; once find_scarb_workspaces has returned, every workspace the
\* tree read without error would give, whose Scarb.toml, whose own directory
\* and whose ancestor directories were read without error, is in the result,
\* and an entry that failed was counted as skipped at most once.
C13_ErrorIsolation ==
    walkPc = "returned" =>
        /\ \A d \in Nodes :
              (/\ PathOf(tree, d) \in find_scarb_workspaces(Faultless(tree))
               /\ ~FaultOnPath(tree, d)
               /\ ~FaultOnMarker(tree, d))
                 => PathOf(tree, d) \in found
        /\ skipped <= 1
        /\ tree.fault = NoFault => skipped = 0

\* the entry of one directory failed and was skipped; a workspace next to it
\* is in the result
C13_Witness ==
    /\ walkPc = "returned"
    /\ tree.fault.kind = "entry"
    /\ skipped = 1
    /\ \E d \in Entries :
          /\ d # tree.fault.at
          /\ tree.parent[d] = tree.parent[tree.fault.at]
          /\ PathOf(tree, d) \in found

\* the workspaces printed before the prompt
ListedSet == {output[k].workspace : k \in LinesOf("listed")}

\* the workspaces for which an invocation was started
StartedSet == {command[i].current_dir : i \in DOMAIN command}

\* C14 (cleaned set equals confirmed set): from the prompt on, the set printed
\* before it is the set discovered; the list the runner works on holds exactly
\* that set; an invocation is only ever started for a workspace of it, and
\* once the runner has finished one was started for every workspace of it.
C14_ConfirmedSet ==
    /\ answer # "unasked" => ListedSet = workspaces
    /\ "env" \in effects =>
          /\ {workspace_list[i] : i \in Items} = ListedSet
          /\ N = Cardinality(ListedSet)
    /\ StartedSet \subseteq ListedSet
    /\ DOMAIN command = {i \in Items : invoked[i] >= 1}
    /\ RunnerFinished => StartedSet = ListedSet

\* three workspaces were listed and confirmed, and one invocation was started
\* for each
C14_Witness ==
    /\ RunnerFinished
    /\ answer = "yes"
    /\ Cardinality(ListedSet) = 3
    /\ StartedSet = workspaces

\* C15 (invocation target): the Command built for item i runs scarb clean with
\* the manifest path workspace_list[i]/Scarb.toml, in the directory
\* workspace_list[i], in an environment that is the parent's without
\* SCARB_MANIFEST_PATH; its manifest path is that of no other workspace.
C15_InvocationTarget ==
    \A i \in DOMAIN command :
        LET c == command[i]
            W == workspace_list[i]
        IN /\ c.program = "scarb" /\ c.subcommand = "clean"
           /\ Len(c.manifest_path) = Len(W) + 1
           /\ SubSeq(c.manifest_path, 1, Len(W)) = W
           /\ c.manifest_path[Len(W) + 1] = ScarbToml
           /\ c.current_dir = W
           /\ "SCARB_MANIFEST_PATH" \notin c.env
           /\ c.env \cup {"SCARB_MANIFEST_PATH"} = parent_env \cup {"SCARB_MANIFEST_PATH"}
           /\ \A j \in Items \ {i} :
                 c.manifest_path # workspace_list[j] \o <<ScarbToml>>

\* SCARB_MANIFEST_PATH is set in the parent and the invocations of two
\* workspaces have been started
C15_Witness ==
    /\ "SCARB_MANIFEST_PATH" \in parent_env
    /\ Cardinality(DOMAIN command) >= 2
    /\ \E i \in DOMAIN command : slot[i] = "running"

Completed ==
    /\ pc = "exited"
    /\ endedBy \in {"all_cleaned", "failures"}
    /\ \A i \in Items : invoked[i] = 1
    /\ Cardinality(LinesOf("aggregate")) = 1

\* C16 as stated, for the runs that have ended: after an affirmative answer
\* the program ends only with every workspace's invocation started and the
\* aggregate line written.
C16_AsStated == (answer = "yes" /\ pc = "exited") => Completed

\* C16, amended: once the user has confirmed and the pool has been built, with
\* every invocation returning and the threads scheduled fairly, the invocation
\* of every workspace is started, the aggregate line is written and the
\* program ends; this for every size 1..N of the pool.
C16_EventualCompletion == (answer = "yes" /\ "pool" \in effects) ~> Completed

\* three workspaces on a pool of one thread: the program has ended with the
\* aggregate line
C16_Witness ==
    /\ Completed
    /\ answer = "yes"
    /\ N = 3
    /\ jobs = 1

\* C17 as stated: once find_scarb_workspaces has returned, if the root
\* directly contains a regular file Scarb.toml the result is {root}.
C17_AsStated ==
    (walkPc = "returned" /\ HasManifest(tree, Root)) => found = {PathOf(tree, Root)}

\* read_dir of the root succeeded
RootRead == ~(tree.fault.kind = "readdir" /\ tree.fault.at = Root)

\* C17, amended: once find_scarb_workspaces has returned, if the root directly
\* contains a regular file Scarb.toml and the walker read the root and that
\* entry without error, the result is {root}, whatever the directories below
\* the root contain.
C17_MarkerAtRoot ==
    (walkPc = "returned" /\ ManifestRead(tree, Root) /\ RootRead) =>
        found = {PathOf(tree, Root)}

\* the root and every directory below it hold a Scarb.toml, none is hidden,
\* nothing fails: the result is the root alone
C17_Witness ==
    /\ walkPc = "returned"
    /\ tree.fault = NoFault
    /\ \A d \in Nodes : HasManifest(tree, d)
    /\ \A x \in Entries : ~tree.hidden[x]
    /\ found = {PathOf(tree, Root)}

\* C18 (serialized output): every line of the program's own output is written
\* by the main thread; no line is written while the pool runs the closures,
\* and every outcome line and the aggregate line is written with every thread
\* of the pool idle, after the join.
C18_SerializedOutput ==
    /\ \A k \in DOMAIN output : output[k].by = "main"
    /\ pc = "run" => DOMAIN output = LinesOf("listed")
    /\ (\E w \in DOMAIN thread : thread[w] # 0) => ReportLines = {}
    /\ ReportLines # {} => pc \in {"aggregate", "exited"}

\* two threads are in Command::status at once; only the list has been written
C18_Witness ==
    /\ pc = "run"
    /\ Cardinality({w \in DOMAIN thread : thread[w] # 0}) = 2
    /\ Len(output) = N

\* the workspaces of the outcome lines, in the order written
OutcomeOrder ==
    [k \in 1..Cardinality(LinesOf("outcome")) |->
        output[CHOOSE p \in LinesOf("outcome") :
                  Cardinality({q \in LinesOf("outcome") : q < p}) = k - 1].workspace]

\* C19 (report order): the outcome lines are written in strictly ascending
\* order of the workspace paths, each line for the next workspace of the
\* discovered set, and when the program has reported there is one line per
\* workspace; this whatever order the invocations started and returned in and
\* whatever the size of the pool.
C19_ReportOrder ==
    /\ Ascending(OutcomeOrder)
    /\ LinesOf("outcome") # {} =>
          /\ Len(OutcomeOrder) <= N
          /\ \A k \in DOMAIN OutcomeOrder :
                /\ OutcomeOrder[k] \in workspaces
                /\ Cardinality({w \in workspaces : PathBefore(w, OutcomeOrder[k])}) = k - 1
    /\ (pc = "exited" /\ endedBy \in {"all_cleaned", "failures"}) =>
          Len(OutcomeOrder) = Cardinality(workspaces)

\* three outcome lines were written after invocations that returned out of
\* order on a pool of two threads
C19_Witness ==
    /\ pc = "exited"
    /\ N = 3
    /\ jobs = 2
    /\ overtaken
    /\ Len(OutcomeOrder) = 3

=============================================================================
